---- MODULE Spec2Model ----
(***************************************************************************)
(* gonetcache: a fixed-capacity, subnet-keyed LRU cache (NetCache[T]).     *)
(* The model follows src/gonetcache.go lines 1-280 (the concurrent engine  *)
(* with the RWMutex fast path and the atomic statistics counters).         *)
(*                                                                         *)
(* Addresses are AddrBits-wide bit strings written as integers; a network  *)
(* is <<base, len>> with the host bits of base zero (what net.ParseCIDR    *)
(* returns and what net.IPNet.String() prints).  A cache entry (slot) is   *)
(* named by its entryid.  A value of type T is modelled by the address the *)
(* Getter was called with (the tests' getters return "result-<ip>").       *)
(***************************************************************************)
EXTENDS Integers, Sequences, FiniteSets, TLC

\* ---- bounds of the model ------------------------------------------------
MaxCapacity == 2
NumWorkers == 2
MaxLookups == 2
AddrBits == 2
PromoteCap == 4
PromoteRuns == 2
SoloLookups == 6

\* ---- domains --------------------------------------------------------------
Nil == -1
NoNet == <<>>
NoAddr == Nil
Free == <<>>

Slots == 0 .. (MaxCapacity - 1)
Workers == 1 .. NumWorkers
Addrs == 0 .. (2 ^ AddrBits - 1)
PrefixLens == 1 .. AddrBits

HostSize(len) == 2 ^ (AddrBits - len)

Canon(a, len) == a - (a % HostSize(len))

Networks == { <<Canon(a, l), l>> : a \in Addrs, l \in PrefixLens }

Contains(n, a) == Canon(a, n[2]) = n[1]

VARIABLES
  newResult,    \* what New returned: "pending" (not called), "engine", "error"
  cacheSize,    \* the cacheSize argument New was called with (Nil before the call)
  maxSize,      \* NetCache.maxSize
  budget,       \* the number of Lookup calls each caller makes in this run
  prev,         \* cacheEntry.prev, by entryid
  next,         \* cacheEntry.next, by entryid
  entry,        \* cacheEntry.entry (*T): Nil or the stored value
  net,          \* cacheEntry.net (*net.IPNet): NoNet or the bound network
  cacheTop,     \* NetCache.cacheTop
  cacheBottom,  \* NetCache.cacheBottom
  cacheTree,    \* NetCache.cacheTree: network -> entryid or Nil
  stats,        \* NetCache.stats
  readers,      \* goroutines holding mutex.RLock
  writer,       \* holder of mutex.Lock: Free, <<"lookup", w>> or <<"promote", s>>
  promos,       \* detached promotion goroutines not yet holding the lock, per slot
  pc,           \* position of each worker inside Lookup
  ip,           \* the address each worker is looking up (NoAddr outside Lookup)
  result,       \* the value the worker's Lookup is about to return (Nil outside)
  done,         \* number of Lookups each worker has completed
  netRange,     \* Lookup's local netRange between the Getter call and the insert
  getterCalls,  \* history: number of times c.Getter has been invoked
  sequential,   \* history: no Lookup has started while another Lookup or a
                \* promotion was still outstanding
  lru           \* history: the registered networks, most recently accessed first
                \* (kept only while the run is sequential)

vars == << newResult, cacheSize, maxSize, budget, prev, next, entry, net, cacheTop,
           cacheBottom, cacheTree, stats, readers, writer, promos, pc, ip,
           result, done, netRange, getterCalls, sequential, lru >>

listVars == << prev, next, cacheTop, cacheBottom >>
slotVars == << entry, net >>
workerVars == << pc, ip, result, done >>
engineVars == << newResult, cacheSize, maxSize, budget >>
histVars == << getterCalls, sequential, lru >>

\* The mutable heap reachable from a NetCache, as one record.
Heap == [ prev |-> prev, next |-> next, entry |-> entry, net |-> net,
          cacheTop |-> cacheTop, cacheBottom |-> cacheBottom,
          cacheTree |-> cacheTree, Evictions |-> stats.Evictions, err |-> FALSE ]

\* ---- the prefix trie (twinshrubnet.TreeRoot) -------------------------------
Matches(tree, a) == { n \in Networks : tree[n] # Nil /\ Contains(n, a) }

LongestMatch(tree, a) ==
  CHOOSE n \in Matches(tree, a) : \A m \in Matches(tree, a) : m[2] <= n[2]

\* A faulty GetFromIP that answers with the shortest matching prefix.
ShortestMatch(tree, a) ==
  CHOOSE n \in Matches(tree, a) : \A m \in Matches(tree, a) : n[2] <= m[2]

GetFromIPShortest(tree, a) ==
  IF Matches(tree, a) = {} THEN Nil ELSE tree[ShortestMatch(tree, a)]

\* GetFromIP: the entry of the longest registered prefix containing a, or Nil.
GetFromIP(tree, a) ==
  IF Matches(tree, a) = {} THEN Nil ELSE tree[LongestMatch(tree, a)]

AddNetFails(tree, n) == tree[n] # Nil

AddNet(tree, n, e) == [tree EXCEPT ![n] = e]

RemoveNetFails(tree, n) == tree[n] = Nil

RemoveNet(tree, n) == [tree EXCEPT ![n] = Nil]

\* ---- New ------------------------------------------------------------------
NewPrev(size) == [ s \in Slots |-> IF s >= 1 /\ s < size THEN s - 1 ELSE Nil ]

\* A faulty New that leaves cacheBottom at the first entry.
NewBottomAtFirst(size) == 0

NewBottom(size) == IF size > 1 THEN size - 1 ELSE 0

NewNext(size) == [ s \in Slots |-> IF s + 1 < size THEN s + 1 ELSE Nil ]

\* ---- cacheEntryPromote ----------------------------------------------------
\* A faulty promote that forgets entry.next.prev = entry.prev.
cacheEntryPromoteNoBackLink(H, e) ==
  IF e = Nil THEN H
  ELSE IF e = H.cacheTop THEN H
  ELSE
    LET H1 == IF H.prev[e] # Nil
              THEN [H EXCEPT !.next[H.prev[e]] = H.next[e]] ELSE H
        H3 == IF e = H1.cacheBottom
              THEN IF H1.prev[e] # Nil
                   THEN [H1 EXCEPT !.cacheBottom = H1.prev[e],
                                   !.next[H1.prev[e]] = Nil]
                   ELSE [H1 EXCEPT !.cacheBottom = Nil]
              ELSE H1
        H4 == [H3 EXCEPT !.prev[e] = Nil, !.next[e] = H3.cacheTop]
        H5 == IF H4.cacheTop # Nil
              THEN [H4 EXCEPT !.prev[H4.cacheTop] = e] ELSE H4
    IN [H5 EXCEPT !.cacheTop = e]

cacheEntryPromote(H, e) ==
  IF e = Nil THEN H
  ELSE IF e = H.cacheTop THEN H
  ELSE
    LET H1 == IF H.prev[e] # Nil
              THEN [H EXCEPT !.next[H.prev[e]] = H.next[e]] ELSE H
        H2 == IF H1.next[e] # Nil
              THEN [H1 EXCEPT !.prev[H1.next[e]] = H1.prev[e]] ELSE H1
        H3 == IF e = H2.cacheBottom
              THEN IF H2.prev[e] # Nil
                   THEN [H2 EXCEPT !.cacheBottom = H2.prev[e],
                                   !.next[H2.prev[e]] = Nil]
                   ELSE [H2 EXCEPT !.cacheBottom = Nil]
              ELSE H2
        H4 == [H3 EXCEPT !.prev[e] = Nil, !.next[e] = H3.cacheTop]
        H5 == IF H4.cacheTop # Nil
              THEN [H4 EXCEPT !.prev[H4.cacheTop] = e] ELSE H4
    IN [H5 EXCEPT !.cacheTop = e]

\* ---- addCacheEntry --------------------------------------------------------
\* The eviction block: the bottom entry's old network leaves the tree (a failed
\* removal is only logged) and Evictions is counted.
\* A faulty eviction that counts the eviction but leaves the old network in
\* the tree.
evictBottomNoRemove(H) ==
  IF H.net[H.cacheBottom] # NoNet
  THEN [H EXCEPT !.Evictions = H.Evictions + 1]
  ELSE H

\* A faulty eviction that counts an eviction on every insert.
evictBottomAlwaysCounting(H) ==
  LET oldNetwork == H.net[H.cacheBottom]
      H1 == [H EXCEPT !.Evictions = H.Evictions + 1]
  IN IF oldNetwork # NoNet
     THEN [H1 EXCEPT !.cacheTree = IF RemoveNetFails(H.cacheTree, oldNetwork)
                                   THEN H.cacheTree
                                   ELSE RemoveNet(H.cacheTree, oldNetwork)]
     ELSE H1

\* A faulty eviction that counts the eviction only when the removal worked.
evictBottomCountingRemoved(H) ==
  LET oldNetwork == H.net[H.cacheBottom] IN
    IF oldNetwork # NoNet /\ ~RemoveNetFails(H.cacheTree, oldNetwork)
    THEN [H EXCEPT !.Evictions = H.Evictions + 1,
                   !.cacheTree = RemoveNet(H.cacheTree, oldNetwork)]
    ELSE H

evictBottom(H) ==
  LET oldNetwork == H.net[H.cacheBottom] IN
    IF oldNetwork # NoNet
    THEN [H EXCEPT !.Evictions = H.Evictions + 1,
                   !.cacheTree = IF RemoveNetFails(H.cacheTree, oldNetwork)
                                 THEN H.cacheTree
                                 ELSE RemoveNet(H.cacheTree, oldNetwork)]
    ELSE H

\* A faulty choice of the entry to reuse: the top of the list.
victimTop(H) == H.cacheTop

\* newEntry := c.cacheBottom
victim(H) == H.cacheBottom

\* A faulty insert that rebinds the bottom entry without taking its old
\* network out of the tree first.
insertBottomKeepingOldNetwork(H, value, network) ==
  LET newEntry == victim(H)
      H2 == [H EXCEPT !.cacheBottom = H.prev[H.cacheBottom]]
      H3 == IF H2.cacheBottom # Nil
            THEN [H2 EXCEPT !.next[H2.cacheBottom] = Nil] ELSE H2
      H4 == [H3 EXCEPT !.net[newEntry] = network, !.entry[newEntry] = value]
  IN IF AddNetFails(H4.cacheTree, network)
     THEN [H4 EXCEPT !.err = TRUE]
     ELSE cacheEntryPromote(
            [H4 EXCEPT !.cacheTree = AddNet(H4.cacheTree, network, newEntry)],
            newEntry)

\* A faulty insert that empties the entry again (removeEntry) when the
\* registration fails.
insertBottomClearingOnFailure(H, value, network) ==
  LET H1 == evictBottom(H)
      newEntry == victim(H1)
      H2 == [H1 EXCEPT !.cacheBottom = H1.prev[H1.cacheBottom]]
      H3 == IF H2.cacheBottom # Nil
            THEN [H2 EXCEPT !.next[H2.cacheBottom] = Nil] ELSE H2
      H4 == [H3 EXCEPT !.net[newEntry] = network, !.entry[newEntry] = value]
  IN IF AddNetFails(H4.cacheTree, network)
     THEN [H4 EXCEPT !.net[newEntry] = NoNet, !.entry[newEntry] = Nil,
                     !.err = TRUE]
     ELSE cacheEntryPromote(
            [H4 EXCEPT !.cacheTree = AddNet(H4.cacheTree, network, newEntry)],
            newEntry)

\* Everything after the two guards: evict, take the bottom entry off the list,
\* rebind it, register it, promote it.
insertBottom(H, value, network) ==
  LET H1 == evictBottom(H)
      newEntry == victim(H1)
      H2 == [H1 EXCEPT !.cacheBottom = H1.prev[H1.cacheBottom]]
      H3 == IF H2.cacheBottom # Nil
            THEN [H2 EXCEPT !.next[H2.cacheBottom] = Nil] ELSE H2
      H4 == [H3 EXCEPT !.net[newEntry] = network, !.entry[newEntry] = value]
  IN IF AddNetFails(H4.cacheTree, network)
     THEN [H4 EXCEPT !.err = TRUE]
     ELSE cacheEntryPromote(
            [H4 EXCEPT !.cacheTree = AddNet(H4.cacheTree, network, newEntry)],
            newEntry)

\* A faulty addCacheEntry that tests for the nil network only after evicting.
addCacheEntryLateNilCheck(H, value, network) ==
  IF H.cacheBottom = Nil THEN [H EXCEPT !.err = TRUE]
  ELSE IF network = NoNet THEN [evictBottom(H) EXCEPT !.err = TRUE]
  ELSE insertBottom(H, value, network)

addCacheEntry(H, value, network) ==
  IF network = NoNet THEN [H EXCEPT !.err = TRUE]
  ELSE IF H.cacheBottom = Nil THEN [H EXCEPT !.err = TRUE]
  ELSE insertBottom(H, value, network)

\* ---- GetHitRate ------------------------------------------------------------
\* A faulty GetHitRate that divides by the misses alone.
GetHitRateOverMisses(hits, misses) ==
  LET total == hits + misses IN
    IF total = 0 THEN [num |-> 0, den |-> 1]
    ELSE [num |-> hits * 100, den |-> misses]

\* The float64 result is kept as the exact fraction num / den; the counters
\* stay far below 2^64, where hits + misses would wrap.
GetHitRate(hits, misses) ==
  LET total == hits + misses IN
    IF total = 0 THEN [num |-> 0, den |-> 1]
    ELSE [num |-> hits * 100, den |-> total]

\* The Getter's value for an address (the tests return "result-<ip>").
Getter(a) == a

SetHeap(H) ==
  /\ prev' = H.prev
  /\ next' = H.next
  /\ entry' = H.entry
  /\ net' = H.net
  /\ cacheTop' = H.cacheTop
  /\ cacheBottom' = H.cacheBottom
  /\ cacheTree' = H.cacheTree

\* ---- history bookkeeping ---------------------------------------------------
Registered(tree) == { n \in Networks : tree[n] # Nil }

\* The access order after a step that leaves tree as the index and in which
\* network n (or NoNet) was the network accessed.
Touch(order, tree, n) ==
  LET keep(m) == m \in Registered(tree) /\ m # n
  IN (IF n # NoNet /\ n \in Registered(tree) THEN <<n>> ELSE <<>>)
       \o SelectSeq(order, keep)

Quiescent ==
  /\ \A w \in Workers : pc[w] = "idle"
  /\ \A s \in Slots : promos[s] = 0
  /\ writer = Free

\* ---- initial state: New has not been called yet ----------------------------
Init ==
  /\ newResult = "pending"
  /\ cacheSize = Nil
  /\ maxSize = 0
  /\ budget = [w \in Workers |-> MaxLookups]
  /\ prev = [s \in Slots |-> Nil]
  /\ next = [s \in Slots |-> Nil]
  /\ entry = [s \in Slots |-> Nil]
  /\ net = [s \in Slots |-> NoNet]
  /\ cacheTop = Nil
  /\ cacheBottom = Nil
  /\ cacheTree = [n \in Networks |-> Nil]
  /\ stats = [Hits |-> 0, Misses |-> 0, Evictions |-> 0]
  /\ readers = {}
  /\ writer = Free
  /\ promos = [s \in Slots |-> 0]
  /\ pc = [w \in Workers |-> "idle"]
  /\ ip = [w \in Workers |-> NoAddr]
  /\ result = [w \in Workers |-> Nil]
  /\ done = [w \in Workers |-> 0]
  /\ netRange = NoNet
  /\ getterCalls = 0
  /\ sequential = TRUE
  /\ lru = <<>>

\* A faulty New without the cacheSize == 0 test.
NewNoZeroCheck(size) ==
  /\ newResult = "pending"
  /\ cacheSize' = size
  /\ newResult' = "engine"
  /\ maxSize' = size
  /\ prev' = NewPrev(size)
  /\ next' = NewNext(size)
  /\ cacheTop' = 0
  /\ cacheBottom' = NewBottom(size)
  /\ UNCHANGED << budget, slotVars, cacheTree, stats, readers, writer, promos,
                  workerVars, netRange, histVars >>

\* New(getter, cacheSize)
New(size) ==
  /\ newResult = "pending"
  /\ cacheSize' = size
  /\ IF size = 0
     THEN /\ newResult' = "error"
          /\ UNCHANGED << maxSize, listVars >>
     ELSE /\ newResult' = "engine"
          /\ maxSize' = size
          /\ prev' = NewPrev(size)
          /\ next' = NewNext(size)
          /\ cacheTop' = 0
          /\ cacheBottom' = NewBottom(size)
  /\ UNCHANGED << budget, slotVars, cacheTree, stats, readers, writer, promos,
                  workerVars, netRange, histVars >>

\* A faulty RLock that is granted while the write lock is held.
LookupRLockIgnoringWriter(w, a) ==
  /\ newResult = "engine"
  /\ pc[w] = "idle"
  /\ done[w] < budget[w]
  /\ readers' = readers \cup {w}
  /\ pc' = [pc EXCEPT ![w] = "fast"]
  /\ ip' = [ip EXCEPT ![w] = a]
  /\ sequential' = (sequential /\ Quiescent)
  /\ lru' = IF sequential' THEN lru ELSE <<>>
  /\ UNCHANGED << engineVars, listVars, slotVars, cacheTree, stats, writer,
                  promos, result, done, netRange, getterCalls >>

\* Lookup: c.mutex.RLock()
LookupRLock(w, a) ==
  /\ newResult = "engine"
  /\ pc[w] = "idle"
  /\ done[w] < budget[w]
  /\ writer = Free
  /\ readers' = readers \cup {w}
  /\ pc' = [pc EXCEPT ![w] = "fast"]
  /\ ip' = [ip EXCEPT ![w] = a]
  /\ sequential' = (sequential /\ Quiescent)
  /\ lru' = IF sequential' THEN lru ELSE <<>>
  /\ UNCHANGED << engineVars, listVars, slotVars, cacheTree, stats, writer,
                  promos, result, done, netRange, getterCalls >>

\* Lookup: the query under the read lock; on a hit the value is copied, the
\* read lock released and the promotion goroutine started.
LookupFast(w) ==
  /\ pc[w] = "fast"
  /\ LET e == GetFromIP(cacheTree, ip[w]) IN
       IF e # Nil /\ entry[e] # Nil
       THEN /\ result' = [result EXCEPT ![w] = entry[e]]
            /\ promos' = [promos EXCEPT ![e] = @ + 1]
            /\ pc' = [pc EXCEPT ![w] = "fasthit"]
            /\ lru' = IF sequential
                      THEN Touch(lru, cacheTree, LongestMatch(cacheTree, ip[w]))
                      ELSE lru
       ELSE /\ pc' = [pc EXCEPT ![w] = "lock"]
            /\ UNCHANGED << result, promos, lru >>
  /\ readers' = readers \ {w}
  /\ UNCHANGED << engineVars, listVars, slotVars, cacheTree, stats, writer,
                  ip, done, netRange, getterCalls, sequential >>

\* A faulty fast-path return that waits until no promotion is outstanding.
LookupFastReturnAwaitingPromotion(w) ==
  /\ pc[w] = "fasthit"
  /\ \A s \in Slots : promos[s] = 0
  /\ writer = Free
  /\ stats' = [stats EXCEPT !.Hits = @ + 1]
  /\ pc' = [pc EXCEPT ![w] = "idle"]
  /\ done' = [done EXCEPT ![w] = @ + 1]
  /\ ip' = [ip EXCEPT ![w] = NoAddr]
  /\ result' = [result EXCEPT ![w] = Nil]
  /\ UNCHANGED << engineVars, listVars, slotVars, cacheTree, readers, writer,
                  promos, netRange, histVars >>

\* Lookup: atomic.AddUint64(&c.stats.Hits, 1); return result
LookupFastReturn(w) ==
  /\ pc[w] = "fasthit"
  /\ stats' = [stats EXCEPT !.Hits = @ + 1]
  /\ pc' = [pc EXCEPT ![w] = "idle"]
  /\ done' = [done EXCEPT ![w] = @ + 1]
  /\ ip' = [ip EXCEPT ![w] = NoAddr]
  /\ result' = [result EXCEPT ![w] = Nil]
  /\ UNCHANGED << engineVars, listVars, slotVars, cacheTree, readers, writer,
                  promos, netRange, histVars >>

\* A faulty Lock that does not wait for the readers to leave.
LookupLockIgnoringReaders(w) ==
  /\ pc[w] = "lock"
  /\ writer = Free
  /\ writer' = <<"lookup", w>>
  /\ pc' = [pc EXCEPT ![w] = "recheck"]
  /\ UNCHANGED << engineVars, listVars, slotVars, cacheTree, stats, readers,
                  promos, ip, result, done, netRange, histVars >>

\* Lookup: c.mutex.Lock()
LookupLock(w) ==
  /\ pc[w] = "lock"
  /\ writer = Free
  /\ readers = {}
  /\ writer' = <<"lookup", w>>
  /\ pc' = [pc EXCEPT ![w] = "recheck"]
  /\ UNCHANGED << engineVars, listVars, slotVars, cacheTree, stats, readers,
                  promos, ip, result, done, netRange, histVars >>

\* A faulty slow path without the double check: every fast-path miss goes on
\* to the Getter.
LookupRecheckNoDoubleCheck(w) ==
  /\ pc[w] = "recheck"
  /\ stats' = [stats EXCEPT !.Misses = @ + 1]
  /\ pc' = [pc EXCEPT ![w] = "getter"]
  /\ UNCHANGED << engineVars, listVars, slotVars, cacheTree, readers, writer,
                  promos, ip, result, done, netRange, histVars >>

\* A faulty double check that promotes the entry it hits.
LookupRecheckPromoting(w) ==
  /\ pc[w] = "recheck"
  /\ LET e == GetFromIP(cacheTree, ip[w]) IN
       IF e # Nil /\ entry[e] # Nil
       THEN /\ stats' = [stats EXCEPT !.Hits = @ + 1]
            /\ result' = [result EXCEPT ![w] = entry[e]]
            /\ pc' = [pc EXCEPT ![w] = "slowhit"]
            /\ SetHeap(cacheEntryPromote(Heap, e))
       ELSE /\ stats' = [stats EXCEPT !.Misses = @ + 1]
            /\ pc' = [pc EXCEPT ![w] = "getter"]
            /\ UNCHANGED << result, listVars, slotVars, cacheTree >>
  /\ UNCHANGED << engineVars, readers, writer, promos, ip, done, netRange,
                  histVars >>

\* A faulty double check that returns the hit without counting it.
LookupRecheckNoHitCount(w) ==
  /\ pc[w] = "recheck"
  /\ LET e == GetFromIP(cacheTree, ip[w]) IN
       IF e # Nil /\ entry[e] # Nil
       THEN /\ result' = [result EXCEPT ![w] = entry[e]]
            /\ pc' = [pc EXCEPT ![w] = "slowhit"]
            /\ UNCHANGED stats
       ELSE /\ stats' = [stats EXCEPT !.Misses = @ + 1]
            /\ pc' = [pc EXCEPT ![w] = "getter"]
            /\ UNCHANGED result
  /\ UNCHANGED << engineVars, listVars, slotVars, cacheTree, readers, writer,
                  promos, ip, done, netRange, histVars >>

\* Lookup: the double check under the write lock, then the hit or miss count.
LookupRecheck(w) ==
  /\ pc[w] = "recheck"
  /\ LET e == GetFromIP(cacheTree, ip[w]) IN
       IF e # Nil /\ entry[e] # Nil
       THEN /\ stats' = [stats EXCEPT !.Hits = @ + 1]
            /\ result' = [result EXCEPT ![w] = entry[e]]
            /\ pc' = [pc EXCEPT ![w] = "slowhit"]
       ELSE /\ stats' = [stats EXCEPT !.Misses = @ + 1]
            /\ pc' = [pc EXCEPT ![w] = "getter"]
            /\ UNCHANGED result
  /\ UNCHANGED << engineVars, listVars, slotVars, cacheTree, readers, writer,
                  promos, ip, done, netRange, histVars >>

\* A faulty return from the double check's hit that keeps the write lock.
LookupSlowReturnNoUnlock(w) ==
  /\ pc[w] = "slowhit"
  /\ pc' = [pc EXCEPT ![w] = "idle"]
  /\ done' = [done EXCEPT ![w] = @ + 1]
  /\ ip' = [ip EXCEPT ![w] = NoAddr]
  /\ result' = [result EXCEPT ![w] = Nil]
  /\ UNCHANGED << engineVars, listVars, slotVars, cacheTree, stats, readers,
                  writer, promos, netRange, histVars >>

\* Lookup: return *cacheEntry.entry on the double check's hit, with the
\* deferred Unlock.
LookupSlowReturn(w) ==
  /\ pc[w] = "slowhit"
  /\ writer' = Free
  /\ pc' = [pc EXCEPT ![w] = "idle"]
  /\ done' = [done EXCEPT ![w] = @ + 1]
  /\ ip' = [ip EXCEPT ![w] = NoAddr]
  /\ result' = [result EXCEPT ![w] = Nil]
  /\ UNCHANGED << engineVars, listVars, slotVars, cacheTree, stats, readers,
                  promos, netRange, histVars >>

\* Lookup: result, netRange := c.Getter(ip).  The Getter is the caller's
\* function: it may return any network, or none.
LookupGetter(w, network) ==
  /\ pc[w] = "getter"
  /\ result' = [result EXCEPT ![w] = Getter(ip[w])]
  /\ netRange' = network
  /\ getterCalls' = getterCalls + 1
  /\ pc' = [pc EXCEPT ![w] = "insert"]
  /\ UNCHANGED << engineVars, listVars, slotVars, cacheTree, stats, readers,
                  writer, promos, ip, done, sequential, lru >>

\* Lookup: c.addCacheEntry(result, netRange), the deferred Unlock, return of
\* result (the value the Getter gave).
LookupInsert(w) ==
  /\ pc[w] = "insert"
  /\ LET H == addCacheEntry(Heap, result[w], netRange) IN
       /\ SetHeap(H)
       /\ stats' = [stats EXCEPT !.Evictions = H.Evictions]
       /\ lru' = IF sequential
                 THEN Touch(lru, H.cacheTree, IF H.err THEN NoNet ELSE netRange)
                 ELSE lru
  /\ netRange' = NoNet
  /\ writer' = Free
  /\ pc' = [pc EXCEPT ![w] = "idle"]
  /\ done' = [done EXCEPT ![w] = @ + 1]
  /\ ip' = [ip EXCEPT ![w] = NoAddr]
  /\ result' = [result EXCEPT ![w] = Nil]
  /\ UNCHANGED << engineVars, readers, promos, getterCalls, sequential >>

\* The promotion goroutine started by a fast-path hit takes the write lock.
PromoteLock(s) ==
  /\ promos[s] > 0
  /\ writer = Free
  /\ readers = {}
  /\ promos' = [promos EXCEPT ![s] = @ - 1]
  /\ writer' = <<"promote", s>>
  /\ UNCHANGED << engineVars, listVars, slotVars, cacheTree, stats, readers,
                  workerVars, netRange, histVars >>

\* The promotion goroutine promotes the captured entry and unlocks.
PromoteRun(s) ==
  /\ writer = <<"promote", s>>
  /\ SetHeap(cacheEntryPromote(Heap, s))
  /\ writer' = Free
  /\ UNCHANGED << engineVars, stats, readers, promos, workerVars, netRange,
                  histVars >>

Next ==
  \/ \E size \in 0 .. MaxCapacity : New(size)
  \/ \E w \in Workers, a \in Addrs : LookupRLock(w, a)
  \/ \E w \in Workers : LookupFast(w)
  \/ \E w \in Workers : LookupFastReturn(w)
  \/ \E w \in Workers : LookupLock(w)
  \/ \E w \in Workers : LookupRecheck(w)
  \/ \E w \in Workers : LookupSlowReturn(w)
  \/ \E w \in Workers, network \in Networks \cup {NoNet} : LookupGetter(w, network)
  \/ \E w \in Workers : LookupInsert(w)
  \/ \E s \in Slots : PromoteLock(s)
  \/ \E s \in Slots : PromoteRun(s)

Spec == Init /\ [][Next]_vars

\* ---- fair runs ---------------------------------------------------------------
\* Everything a Lookup does after the caller has started it.
LookupStep(w) ==
  \/ LookupFast(w)
  \/ LookupFastReturn(w)
  \/ LookupLock(w)
  \/ LookupRecheck(w)
  \/ LookupSlowReturn(w)
  \/ \E network \in Networks \cup {NoNet} : LookupGetter(w, network)
  \/ LookupInsert(w)

PromoteStep(s) == PromoteLock(s) \/ PromoteRun(s)

\* The Go scheduler runs every runnable goroutine, a Getter that always returns
\* is eventually back, and sync.RWMutex grants a lock that stays available; a
\* caller is never obliged to start another Lookup.
Fairness ==
  /\ \A w \in Workers : WF_vars(LookupStep(w))
  /\ \A s \in Slots : WF_vars(PromoteStep(s))

\* The callers of the fair runs look up one address in each half of the
\* address space, and their Getter answers with one of the two half networks
\* or with none: a Lookup can then leave the slow path by the hit of the
\* double check, with an uncacheable result, with a failed insert (the network
\* is already registered, or cacheBottom is nil) and with a successful insert,
\* and a promotion can find its entry anywhere in the list or off it.
LiveAddrs == {0, 2 ^ (AddrBits - 1)}

LiveNets == {NoNet, <<0, 1>>, <<2 ^ (AddrBits - 1), 1>>}

LiveNext ==
  \/ \E size \in 0 .. MaxCapacity : New(size)
  \/ \E w \in Workers, a \in LiveAddrs : LookupRLock(w, a)
  \/ \E w \in Workers : LookupFast(w)
  \/ \E w \in Workers : LookupFastReturn(w)
  \/ \E w \in Workers : LookupLock(w)
  \/ \E w \in Workers : LookupRecheck(w)
  \/ \E w \in Workers : LookupSlowReturn(w)
  \/ \E w \in Workers, network \in LiveNets : LookupGetter(w, network)
  \/ \E w \in Workers : LookupInsert(w)
  \/ \E s \in Slots : PromoteLock(s)
  \/ \E s \in Slots : PromoteRun(s)

FairSpec == Init /\ [][LiveNext]_vars /\ Fairness

\* ---- one caller, many Lookups ----------------------------------------------------
\* One caller makes SoloLookups Lookups one after another and a second caller
\* a single Lookup at any time, on three addresses, with a Getter that answers
\* with one of two single-address networks whatever the address; the
\* promotions the fast-path hits start run whenever they get the lock.
SoloAddrs == {0, 1, 2}

SoloNets == {<<0, AddrBits>>, <<1, AddrBits>>}

SoloInit ==
  /\ newResult = "pending"
  /\ cacheSize = Nil
  /\ maxSize = 0
  /\ budget = [w \in Workers |-> IF w = 1 THEN SoloLookups
                                 ELSE IF w = 2 THEN 1 ELSE 0]
  /\ prev = [s \in Slots |-> Nil]
  /\ next = [s \in Slots |-> Nil]
  /\ entry = [s \in Slots |-> Nil]
  /\ net = [s \in Slots |-> NoNet]
  /\ cacheTop = Nil
  /\ cacheBottom = Nil
  /\ cacheTree = [n \in Networks |-> Nil]
  /\ stats = [Hits |-> 0, Misses |-> 0, Evictions |-> 0]
  /\ readers = {}
  /\ writer = Free
  /\ promos = [s \in Slots |-> 0]
  /\ pc = [w \in Workers |-> "idle"]
  /\ ip = [w \in Workers |-> NoAddr]
  /\ result = [w \in Workers |-> Nil]
  /\ done = [w \in Workers |-> 0]
  /\ netRange = NoNet
  /\ getterCalls = 0
  /\ sequential = TRUE
  /\ lru = <<>>

SoloNext ==
  \/ \E size \in 0 .. MaxCapacity : New(size)
  \/ \E w \in Workers, a \in SoloAddrs : LookupRLock(w, a)
  \/ \E w \in Workers : LookupFast(w)
  \/ \E w \in Workers : LookupFastReturn(w)
  \/ \E w \in Workers : LookupLock(w)
  \/ \E w \in Workers : LookupRecheck(w)
  \/ \E w \in Workers : LookupSlowReturn(w)
  \/ \E w \in Workers, network \in SoloNets : LookupGetter(w, network)
  \/ \E w \in Workers : LookupInsert(w)
  \/ \E s \in Slots : PromoteLock(s)
  \/ \E s \in Slots : PromoteRun(s)

SoloSpec == SoloInit /\ [][SoloNext]_vars

\* ---- cacheEntryPromote on its own ----------------------------------------------
\* An engine as New builds it for any capacity up to PromoteCap, all entries
\* empty, on which up to PromoteRuns promotions per entry are outstanding and
\* run in any order.
PromoteSlots == 0 .. (PromoteCap - 1)

PromoteInit ==
  /\ newResult = "engine"
  /\ cacheSize \in 1 .. PromoteCap
  /\ maxSize = cacheSize
  /\ budget = [w \in Workers |-> 0]
  /\ prev = [s \in PromoteSlots |-> IF s >= 1 /\ s < cacheSize THEN s - 1 ELSE Nil]
  /\ next = [s \in PromoteSlots |-> IF s + 1 < cacheSize THEN s + 1 ELSE Nil]
  /\ entry = [s \in PromoteSlots |-> Nil]
  /\ net = [s \in PromoteSlots |-> NoNet]
  /\ cacheTop = 0
  /\ cacheBottom = cacheSize - 1
  /\ cacheTree = [n \in Networks |-> Nil]
  /\ stats = [Hits |-> 0, Misses |-> 0, Evictions |-> 0]
  /\ readers = {}
  /\ writer = Free
  /\ promos = [s \in PromoteSlots |-> IF s < cacheSize THEN PromoteRuns ELSE 0]
  /\ pc = [w \in Workers |-> "idle"]
  /\ ip = [w \in Workers |-> NoAddr]
  /\ result = [w \in Workers |-> Nil]
  /\ done = [w \in Workers |-> 0]
  /\ netRange = NoNet
  /\ getterCalls = 0
  /\ sequential = TRUE
  /\ lru = <<>>

PromoteNext ==
  \/ \E s \in PromoteSlots : PromoteLock(s)
  \/ \E s \in PromoteSlots : PromoteRun(s)

PromoteSpec == PromoteInit /\ [][PromoteNext]_vars

\* ---- derived views of the state ----------------------------------------------
RECURSIVE Walk(_, _)
Walk(e, fuel) ==
  IF e = Nil \/ fuel = 0 THEN <<>> ELSE <<e>> \o Walk(next[e], fuel - 1)

\* The slots reached from cacheTop by following next (cut off after one more
\* than MaxCapacity steps, so that a cycle shows as an over-long list).
RecencyList == Walk(cacheTop, MaxCapacity + 1)

ListSlots == { RecencyList[i] : i \in 1 .. Len(RecencyList) }

IsBound(s) == net[s] # NoNet /\ entry[s] # Nil

BoundSlots == { s \in Slots : IsBound(s) }

SumDone == LET RECURSIVE Sum(_)
               Sum(k) == IF k = 0 THEN 0 ELSE done[k] + Sum(k - 1)
           IN Sum(NumWorkers)

\* ---- C1 ------------------------------------------------------------------------
HitOn(w, n) ==
  /\ n \in Matches(cacheTree, ip[w])
  /\ net[cacheTree[n]] = n
  /\ entry[cacheTree[n]] # Nil
  /\ result'[w] = entry[cacheTree[n]]
  /\ getterCalls' = getterCalls
  /\ stats'.Misses = stats.Misses

CoalescingStep(w) ==
  /\ (pc[w] = "fast" /\ pc'[w] # "fast" /\ Matches(cacheTree, ip[w]) # {})
       => /\ pc'[w] = "fasthit"
          /\ stats'.Hits = stats.Hits
          /\ \E n \in Networks : HitOn(w, n)
  /\ (pc[w] = "fasthit" /\ pc'[w] # "fasthit")
       => /\ pc'[w] = "idle"
          /\ stats'.Hits = stats.Hits + 1
          /\ stats'.Misses = stats.Misses
          /\ getterCalls' = getterCalls
  /\ (pc[w] = "recheck" /\ pc'[w] # "recheck" /\ Matches(cacheTree, ip[w]) # {})
       => /\ pc'[w] = "slowhit"
          /\ stats'.Hits = stats.Hits + 1
          /\ \E n \in Networks : HitOn(w, n)
  /\ (pc[w] = "slowhit" /\ pc'[w] # "slowhit")
       => /\ pc'[w] = "idle"
          /\ stats' = stats
          /\ getterCalls' = getterCalls

\* C1: a Lookup of an address that lies in a registered network is a hit.  On
\* the fast path and on the recheck alike it does not call the Getter, counts
\* one hit and no miss, and returns the value held by the entry the tree maps
\* the matching network to, an entry that is bound to that very network.
SubnetCoalescing == [][\A w \in Workers : CoalescingStep(w)]_vars

\* Lookup(0) missed and cached <<0, 1>>; Lookup(1) has just read the value
\* stored for address 0 on the fast path.
SubnetCoalescingWitness ==
  /\ \E w \in Workers : pc[w] = "fasthit" /\ ip[w] = 1 /\ result[w] = Getter(0)
  /\ cacheTree[<<0, 1>>] # Nil
  /\ stats.Misses = 1
  /\ stats.Hits = 0
  /\ getterCalls = 1
  /\ SumDone = 1

\* ---- C2 ------------------------------------------------------------------------
Counted(w) == pc[w] \in {"getter", "insert", "slowhit"}

\* C2: every Lookup counts exactly one hit or one miss: at any moment
\* Hits + Misses is the number of Lookups that have returned plus the number
\* that have counted and not yet returned (a miss before the Getter or the
\* insert, a hit of the double check before its return), and
\* once every worker has finished it is NumWorkers * MaxLookups.
CounterConservation ==
  /\ stats.Hits + stats.Misses = SumDone + Cardinality({ w \in Workers : Counted(w) })
  /\ (\A w \in Workers : done[w] = MaxLookups)
       => stats.Hits + stats.Misses = NumWorkers * MaxLookups

CounterConservationWitness ==
  /\ \A w \in Workers : done[w] = MaxLookups /\ pc[w] = "idle"
  /\ ~sequential
  /\ stats.Hits > 0
  /\ stats.Misses > 0

\* ---- C3 ------------------------------------------------------------------------
\* C3: whenever the write lock is free, the list reached from cacheTop holds
\* exactly maxSize slots, none twice, and at most maxSize slots are bound.
CapacityInvariant ==
  (newResult = "engine" /\ writer = Free)
    => /\ Len(RecencyList) = maxSize
       /\ Cardinality(ListSlots) = Len(RecencyList)
       /\ Cardinality(BoundSlots) <= maxSize

\* ---- C4 ------------------------------------------------------------------------
\* C4: whenever the write lock is free, every bound slot is what the tree maps
\* its network to, and every tree entry leads to a slot bound to that network.
IndexCoherence ==
  (newResult = "engine" /\ writer = Free)
    => /\ \A s \in BoundSlots : cacheTree[net[s]] = s
       /\ \A n \in Registered(cacheTree) :
            IsBound(cacheTree[n]) /\ net[cacheTree[n]] = n

\* ---- C5 ------------------------------------------------------------------------
\* The least recently accessed registered network of a sequential run.
Oldest == lru[Len(lru)]

LRUEvictionStep(w) ==
  ( /\ pc[w] = "insert" /\ pc'[w] = "idle"
    /\ sequential
    /\ Cardinality(BoundSlots) = maxSize
    /\ netRange \in Networks
    /\ cacheTree[netRange] = Nil )
  => /\ stats'.Evictions = stats.Evictions + 1
     /\ lru # <<>>
     /\ cacheTree'[Oldest] = Nil
     /\ Registered(cacheTree') = (Registered(cacheTree) \ {Oldest}) \cup {netRange}

\* C5: in a sequential run with every slot bound, the insert of a new,
\* cacheable network counts exactly one eviction and unregisters exactly the
\* least recently accessed network (which a following Lookup can therefore no
\* longer hit), registering the new one in its place.
LRUEviction == [][\A w \in Workers : LRUEvictionStep(w)]_vars

\* ---- C6 ------------------------------------------------------------------------
NoCacheState ==
  /\ maxSize = 0
  /\ cacheTop = Nil
  /\ cacheBottom = Nil
  /\ \A s \in Slots : prev[s] = Nil /\ next[s] = Nil /\ entry[s] = Nil /\ net[s] = NoNet
  /\ Registered(cacheTree) = {}
  /\ stats = [Hits |-> 0, Misses |-> 0, Evictions |-> 0]
  /\ \A w \in Workers : pc[w] = "idle" /\ done[w] = 0

\* C6: New called with cacheSize 0 returns the error and no engine: nothing of
\* the cache exists afterwards and no Lookup can run on it.
ZeroCapacityRejection == (cacheSize = 0) => (newResult = "error" /\ NoCacheState)

ZeroCapacityRejectionWitness == cacheSize = 0 /\ newResult = "error"

\* ---- C7 ------------------------------------------------------------------------
IsLongest(n, a) ==
  /\ n \in Matches(cacheTree, a)
  /\ \A m \in Matches(cacheTree, a) : m[2] <= n[2]

HitStep(w) ==
  \/ pc[w] = "fast" /\ pc'[w] = "fasthit"
  \/ pc[w] = "recheck" /\ pc'[w] = "slowhit"

LongestPrefixStep(w) ==
  HitStep(w) =>
    \E n \in Networks : IsLongest(n, ip[w]) /\ result'[w] = entry[cacheTree[n]]

\* C7: a Lookup that hits returns the value of the entry registered under the
\* longest of the registered networks that contain the address.
LongestPrefixMatch == [][\A w \in Workers : LongestPrefixStep(w)]_vars

\* <<0, 1>> and <<0, 2>> are both registered with different values and a
\* Lookup of address 0 has just read the value of <<0, 2>>.
LongestPrefixMatchWitness ==
  /\ sequential
  /\ cacheTree[<<0, 1>>] # Nil
  /\ cacheTree[<<0, 2>>] # Nil
  /\ entry[cacheTree[<<0, 1>>]] # entry[cacheTree[<<0, 2>>]]
  /\ \E w \in Workers :
       pc[w] = "fasthit" /\ ip[w] = 0 /\ result[w] = entry[cacheTree[<<0, 2>>]]

\* ---- C8 ------------------------------------------------------------------------
Overlaps(m, n) == m # n /\ \E a \in Addrs : Contains(m, a) /\ Contains(n, a)

OverlapStep(w) ==
  ( /\ pc[w] = "insert" /\ pc'[w] = "idle"
    /\ maxSize >= 2
    /\ netRange \in Networks
    /\ cacheTree[netRange] = Nil
    /\ cacheBottom # Nil )
  => /\ cacheTree'[netRange] = cacheBottom
     /\ net'[cacheBottom] = netRange
     /\ entry'[cacheBottom] = result[w]
     /\ \A m \in Registered(cacheTree) :
          (Overlaps(m, netRange) /\ cacheTree[m] # cacheBottom /\ net[cacheBottom] # m)
            => /\ cacheTree'[m] = cacheTree[m]
               /\ cacheTree'[m] # cacheTree'[netRange]
               /\ net'[cacheTree'[m]] = m
               /\ entry'[cacheTree'[m]] # Nil

\* C8: with maxSize >= 2, inserting a network that is not yet registered
\* succeeds even when a different, overlapping network is registered: the new
\* network is registered to the bottom entry, and every overlapping network
\* that is not the one being evicted stays registered to its own bound entry.
OverlapCoexistence == [][\A w \in Workers : OverlapStep(w)]_vars

\* <<0, 2>> was cached by the first miss and <<0, 1>> by the second.
OverlapCoexistenceWitness ==
  /\ maxSize = 2
  /\ getterCalls = 2
  /\ cacheTree[<<0, 2>>] # Nil
  /\ cacheTree[<<0, 1>>] # Nil
  /\ cacheTree[<<0, 2>>] # cacheTree[<<0, 1>>]
  /\ Cardinality(BoundSlots) = maxSize
  /\ stats.Evictions = 0

\* ---- C9 ------------------------------------------------------------------------
UncacheableStep(w) ==
  /\ (pc[w] = "recheck" /\ pc'[w] = "getter")
       => /\ stats'.Misses = stats.Misses + 1
          /\ stats'.Hits = stats.Hits
          /\ stats'.Evictions = stats.Evictions
  /\ (pc[w] = "getter" /\ pc'[w] = "insert")
       => /\ result'[w] = Getter(ip[w])
          /\ UNCHANGED << stats, cacheTree, listVars, slotVars >>
  /\ (pc[w] = "insert" /\ pc'[w] = "idle" /\ netRange = NoNet)
       => /\ result[w] = Getter(ip[w])
          /\ UNCHANGED << stats, cacheTree, listVars, slotVars >>

\* C9: a genuine miss counts one miss; the Getter's value is what Lookup
\* returns; and when the Getter returned no network the insert step leaves the
\* tree, the list, every entry and all three counters as they were.
UncacheableResult == [][\A w \in Workers : UncacheableStep(w)]_vars

\* The Getter has just returned no network while every slot is bound, so an
\* insert would have evicted the bottom entry.
UncacheableResultWitness ==
  /\ \E w \in Workers : pc[w] = "insert"
  /\ netRange = NoNet
  /\ cacheBottom # Nil
  /\ net[cacheBottom] # NoNet
  /\ Cardinality(BoundSlots) = maxSize

\* ---- C10 -----------------------------------------------------------------------
\* C10: GetHitRate is 0 when there were neither hits nor misses, is
\* hits / (hits + misses) * 100 otherwise, and lies between 0 and 100.
HitRateFormula ==
  LET h == stats.Hits
      m == stats.Misses
      r == GetHitRate(h, m)
  IN /\ r.den > 0
     /\ (h = 0 /\ m = 0) => r.num = 0
     /\ (h + m > 0) => r.num * (h + m) = h * 100 * r.den
     /\ 0 <= r.num
     /\ r.num <= 100 * r.den

HitRateFormulaWitness ==
  /\ stats.Hits = 1
  /\ stats.Misses = 2
  /\ GetHitRate(stats.Hits, stats.Misses).num * 3 = 100 * GetHitRate(stats.Hits, stats.Misses).den

\* ---- C11 -----------------------------------------------------------------------
HoldsNoLock(w) == w \notin readers /\ writer # <<"lookup", w>>

ReturnStep(w) ==
  (pc[w] # "idle" /\ pc'[w] = "idle")
    => /\ result[w] # Nil
       /\ HoldsNoLock(w)'

\* C11: every Lookup that has started eventually returns, the write lock is
\* always eventually free again (so a caller waiting for either lock is
\* eventually served), the step that returns hands back a value, and a worker
\* outside Lookup holds neither the read lock nor the write lock.
LookupTotal ==
  /\ \A w \in Workers : (pc[w] # "idle") ~> (pc[w] = "idle")
  /\ (writer # Free) ~> (writer = Free)
  /\ [][\A w \in Workers : ReturnStep(w)]_vars
  /\ [](\A w \in Workers : pc[w] = "idle" => HoldsNoLock(w))

\* Both workers are inside Lookup at once: one holds the write lock in the
\* insert after a failed double check, the other waits for the write lock,
\* with a promotion still pending.
LookupTotalWitness ==
  /\ \E w \in Workers : pc[w] = "insert" /\ writer = <<"lookup", w>>
  /\ \E w \in Workers : pc[w] = "lock"
  /\ \E s \in Slots : promos[s] > 0

\* ---- C12 -----------------------------------------------------------------------
\* The network n was cached by the Lookup of an address of n (the stored value
\* names the address the Getter was called with) and contains a as well.
CachedForSameSubnet(n, a) ==
  /\ n \in Matches(cacheTree, a)
  /\ entry[cacheTree[n]] # Nil
  /\ Contains(n, entry[cacheTree[n]])

NoSingleFlightStep(w) ==
  ( /\ pc[w] = "recheck" /\ pc'[w] # "recheck"
    /\ \E n \in Networks : CachedForSameSubnet(n, ip[w]) )
  => pc'[w] = "getter"

\* C12: a Lookup whose fast path missed goes on to the Getter even when a
\* concurrent Lookup of an address of the same subnet has cached that subnet
\* in the meantime, so that both callers invoke the Getter and both insert.
NoSingleFlight == [][\A w \in Workers : NoSingleFlightStep(w)]_vars

\* C12 as amended: a Lookup is in the Getter or in the insert only while no
\* registered network contains its address; of two Lookups that missed on
\* the fast path at the same time on one subnet, the one that takes the write
\* lock second finds the subnet the first one cached and does not go on to
\* the Getter.
GetterOnlyOnGenuineMiss ==
  \A w \in Workers :
    /\ pc[w] \in {"getter", "insert"} => Matches(cacheTree, ip[w]) = {}
    /\ pc[w] = "slowhit" => Matches(cacheTree, ip[w]) # {}

\* Both workers missed on the fast path on addresses 0 and 1 of <<0, 1>>; the
\* first has cached <<0, 1>> and returned, the second has just hit on the
\* double check: one Getter call, one miss and one hit.
GetterOnlyOnGenuineMissWitness ==
  /\ \E w \in Workers :
       /\ pc[w] = "slowhit"
       /\ ip[w] = 1
       /\ result[w] = Getter(0)
  /\ cacheTree[<<0, 1>>] # Nil
  /\ Registered(cacheTree) = {<<0, 1>>}
  /\ getterCalls = 1
  /\ stats.Misses = 1
  /\ stats.Hits = 1
  /\ SumDone = 1

\* ---- C13 -----------------------------------------------------------------------
\* The exclusive operations in progress: slow-path Lookups between Lock and
\* the deferred Unlock, and the promotion that holds the lock.
SlowPathWorkers == { w \in Workers : pc[w] \in {"recheck", "slowhit", "getter", "insert"} }

ExclusiveOps ==
  { <<"lookup", w>> : w \in SlowPathWorkers }
    \cup (IF writer # Free /\ writer[1] = "promote" THEN {writer} ELSE {})

LockState ==
  /\ Cardinality(ExclusiveOps) <= 1
  /\ ExclusiveOps = (IF writer = Free THEN {} ELSE {writer})
  /\ readers = { w \in Workers : pc[w] = "fast" }
  /\ readers # {} => ExclusiveOps = {}

\* A step of the running engine that changes the tree, a slot or the list.
WritesCache ==
  /\ newResult = "engine"
  /\ << listVars, slotVars, cacheTree >>' # << listVars, slotVars, cacheTree >>

\* C13: at most one exclusive operation is in progress and it is the holder
\* of the write lock; the workers doing the fast-path read are exactly the
\* holders of the read lock, and none of them overlaps an exclusive operation;
\* the tree, the slots and the list change only in a step of the exclusive
\* operation, with no reader inside.
LockDiscipline ==
  /\ []LockState
  /\ [][WritesCache => (writer # Free /\ readers = {})]_vars

\* Two fast-path reads overlap each other.
LockDisciplineWitness ==
  /\ Cardinality(readers) = 2
  /\ Registered(cacheTree) # {}

\* ---- C14 -----------------------------------------------------------------------
Promoting(s) == writer = <<"promote", s>>

\* C14: a Lookup that hit on the fast path can return at once, whatever
\* promotions are pending or running; in a fair run every pending promotion
\* eventually takes the write lock and is applied, and when it releases the
\* lock the captured entry is cacheTop.
DeferredPromotion ==
  /\ [](\A w \in Workers : pc[w] = "fasthit" => ENABLED LookupFastReturn(w))
  /\ \A s \in Slots : (promos[s] > 0) ~> Promoting(s)
  /\ \A s \in Slots : Promoting(s) ~> (writer = Free /\ cacheTop = s)
  /\ [][\A s \in Slots : (Promoting(s) /\ ~Promoting(s)') => cacheTop' = s]_vars

\* The Lookup that hit on the fast path has returned while its promotion has
\* not yet taken the lock, and the entry to promote is not cacheTop.
DeferredPromotionWitness ==
  /\ \A w \in Workers : pc[w] = "idle"
  /\ stats.Hits >= 1
  /\ writer = Free
  /\ \E s \in Slots : promos[s] > 0 /\ cacheTop # s /\ IsBound(s)

\* ---- C15 -----------------------------------------------------------------------
RecheckHitFrame ==
  /\ getterCalls' = getterCalls
  /\ stats'.Misses = stats.Misses
  /\ stats'.Evictions = stats.Evictions
  /\ UNCHANGED << cacheTree, slotVars, listVars >>

SlowPathRecheckStep(w) ==
  /\ (pc[w] = "recheck" /\ pc'[w] # "recheck")
       => IF Matches(cacheTree, ip[w]) # {}
          THEN /\ pc'[w] = "slowhit"
               /\ stats'.Hits = stats.Hits + 1
               /\ result'[w] = entry[GetFromIP(cacheTree, ip[w])]
               /\ result'[w] # Nil
               /\ RecheckHitFrame
          ELSE /\ pc'[w] = "getter"
               /\ stats'.Hits = stats.Hits
               /\ getterCalls' = getterCalls
  /\ (pc[w] = "slowhit" /\ pc'[w] # "slowhit")
       => /\ pc'[w] = "idle"
          /\ stats'.Hits = stats.Hits
          /\ RecheckHitFrame
  /\ (getterCalls' # getterCalls /\ pc[w] # pc'[w])
       => /\ pc[w] = "getter"
          /\ writer = <<"lookup", w>>
          /\ Matches(cacheTree, ip[w]) = {}

\* C15: the Getter is invoked only by a Lookup that holds the write lock and
\* whose address no registered network contains.  A Lookup whose double check
\* finds such a network counts a hit and no miss, returns the stored value,
\* does not invoke the Getter, and leaves the tree, every entry, the list and
\* Evictions as they were, up to and including its return.
SlowPathRecheck == [][\A w \in Workers : SlowPathRecheckStep(w)]_vars

\* With both entries bound, a worker whose fast path missed has hit on the
\* double check an entry that another worker cached in between and that is
\* not cacheTop.
SlowPathRecheckWitness ==
  /\ maxSize = 2
  /\ Cardinality(BoundSlots) = 2
  /\ \E w \in Workers :
       /\ pc[w] = "slowhit"
       /\ GetFromIP(cacheTree, ip[w]) # Nil
       /\ GetFromIP(cacheTree, ip[w]) # cacheTop
       /\ result[w] # Getter(ip[w])

\* ---- C16 -----------------------------------------------------------------------
\* The value v is what some entry holds together with a network that is
\* registered to that entry and contains a.
StoredFor(v, a) ==
  \E n \in Matches(cacheTree, a) :
    /\ net[cacheTree[n]] = n
    /\ entry[cacheTree[n]] = v

InHit(w) == pc[w] \in {"fasthit", "slowhit"}

ValueIsolationStep(w) ==
  /\ (~InHit(w) /\ InHit(w)') => StoredFor(result'[w], ip[w])
  /\ (InHit(w) /\ InHit(w)') => (result'[w] = result[w] /\ ip'[w] = ip[w])
  /\ (InHit(w) /\ pc'[w] = "idle") => result[w] # Nil
  /\ (pc[w] = "insert" /\ pc'[w] = "idle") => result[w] = Getter(ip[w])
  /\ (pc[w] # "idle" /\ pc'[w] = "idle") => (InHit(w) \/ pc[w] = "insert")

\* C16: the value a Lookup returns on a hit is the value that, at the step of
\* the tree query, was held by an entry bound and registered to a network
\* containing the address, and it stays that value until the return whatever
\* happens to the entry in between; a Lookup that does not hit returns the
\* value its own Getter call gave.
ValueIsolation == [][\A w \in Workers : ValueIsolationStep(w)]_vars

\* A Lookup that hit on the fast path has not yet returned, and the entry it
\* read has since been evicted and rebound: no entry holds the copied value
\* for a network containing the address any more.
ValueIsolationWitness ==
  \E w \in Workers :
    /\ pc[w] = "fasthit"
    /\ result[w] # Nil
    /\ ~StoredFor(result[w], ip[w])
    /\ \A s \in Slots : entry[s] # result[w]
    /\ stats.Evictions > 0

\* ---- C17 -----------------------------------------------------------------------
InsertPostconditionStep(w) ==
  ( /\ pc[w] = "insert" /\ pc'[w] = "idle"
    /\ maxSize >= 1
    /\ netRange \in Networks
    /\ cacheTree[netRange] = Nil )
  => /\ cacheBottom # Nil
     /\ cacheTree'[netRange] = cacheBottom
     /\ net'[cacheBottom] = netRange
     /\ entry'[cacheBottom] = result[w]
     /\ cacheTop' = cacheBottom

\* C17: for every capacity from 1 up and every genuine miss, when the Getter
\* returned a network that is not registered, the Lookup returns with that
\* network registered to the entry that was cacheBottom when the insert began,
\* that entry holding the new value and network and being cacheTop.
InsertPostcondition == [][\A w \in Workers : InsertPostconditionStep(w)]_vars

\* ---- C18 -----------------------------------------------------------------------
\* C18: whenever the write lock is free, cacheTop and cacheBottom are both
\* non-nil, cacheTop has no prev, cacheBottom has no next, cacheBottom is
\* reached from cacheTop along next without a cycle, and prev undoes next
\* along the chain.
ListWellFormed ==
  (newResult = "engine" /\ maxSize >= 1 /\ writer = Free)
    => /\ cacheTop # Nil
       /\ cacheBottom # Nil
       /\ prev[cacheTop] = Nil
       /\ next[cacheBottom] = Nil
       /\ Len(RecencyList) <= MaxCapacity
       /\ RecencyList[Len(RecencyList)] = cacheBottom
       /\ \A i \in 1 .. (Len(RecencyList) - 1) :
            prev[RecencyList[i + 1]] = RecencyList[i]

\* ---- C19 -----------------------------------------------------------------------
RegistrationFailureStep(w) ==
  ( /\ pc[w] = "insert" /\ pc'[w] = "idle"
    /\ netRange \in Networks
    /\ cacheBottom # Nil
    /\ Len(RecencyList) = maxSize
    /\ cacheBottom \in ListSlots
    /\ AddNetFails(evictBottom(Heap).cacheTree, netRange) )
  => /\ result[w] = Getter(ip[w])
     /\ cacheBottom \in ListSlots'
     /\ Len(RecencyList') = maxSize

\* C19: when the insert cannot register the new network because it is
\* already registered, the Lookup still returns the Getter's value, and the
\* entry chosen for reuse is still on the list, which still holds maxSize
\* entries.
RegistrationFailure == [][\A w \in Workers : RegistrationFailureStep(w)]_vars

\* ---- C20 -----------------------------------------------------------------------
HasValue(s) == entry[s] # Nil

HasNetwork(s) == net[s] # NoNet

\* C20: an entry has a value exactly when it has a network, and an entry that
\* is bound stays bound: it is only ever given another value and network.
SlotStateMachine ==
  /\ [](\A s \in Slots : HasValue(s) <=> HasNetwork(s))
  /\ [][\A s \in Slots : IsBound(s) => IsBound(s)']_vars

\* An entry that was bound has been evicted and bound again to another
\* network, while the other entry of the cache is bound as well.
SlotStateMachineWitness ==
  /\ stats.Evictions > 0
  /\ Cardinality(BoundSlots) = maxSize
  /\ maxSize = 2
  /\ \E s \in Slots : IsBound(s) /\ cacheTree[net[s]] = s /\ cacheTop = s

\* ---- C21 -----------------------------------------------------------------------
\* The list from cacheTop along next, for capacities up to PromoteCap.
PromoteList == Walk(cacheTop, PromoteCap + 1)

InSeq(x, sq) == \E i \in 1 .. Len(sq) : sq[i] = x

\* sq moved to the front: s first, the others in the order they had.
MovedToFront(sq, s) ==
  LET other(x) == x # s IN <<s>> \o SelectSeq(sq, other)

\* prev, next, cacheTop and cacheBottom after the step spell the sequence sq.
SpellsList(sq) ==
  /\ cacheTop' = sq[1]
  /\ cacheBottom' = sq[Len(sq)]
  /\ prev'[sq[1]] = Nil
  /\ next'[sq[Len(sq)]] = Nil
  /\ \A i \in 1 .. (Len(sq) - 1) :
       next'[sq[i]] = sq[i + 1] /\ prev'[sq[i + 1]] = sq[i]

PromoteSemanticsStep(s) ==
  (Promoting(s) /\ ~Promoting(s)' /\ InSeq(s, PromoteList))
    => /\ IF s = cacheTop
          THEN UNCHANGED listVars
          ELSE /\ SpellsList(MovedToFront(PromoteList, s))
               /\ (s = cacheBottom) => cacheBottom' = prev[s]
       /\ UNCHANGED << slotVars, cacheTree, stats >>

\* C21: promoting an entry that is on the list changes nothing when it is
\* cacheTop; otherwise the entry becomes cacheTop, the other entries keep
\* their order, and cacheBottom becomes the entry's former prev when the
\* entry was cacheBottom.  No value, network, tree entry or counter changes.
PromoteSemantics == [][\A s \in PromoteSlots : PromoteSemanticsStep(s)]_vars

\* With four entries, entry 1 was promoted from the middle and then entry 3
\* from the bottom: the list reads 3, 1, 0, 2.
PromoteSemanticsWitness ==
  /\ maxSize = 4
  /\ writer = Free
  /\ PromoteList = <<3, 1, 0, 2>>
  /\ cacheBottom = 2
  /\ promos[1] = PromoteRuns - 1
  /\ promos[3] = PromoteRuns - 1
  /\ promos[0] = PromoteRuns

\* ---- C22 -----------------------------------------------------------------------
\* The insert about to run will find the bottom entry bound to a network that
\* RemoveNet cannot remove, and a new network that AddNet can register.
RemovalWillFail ==
  /\ netRange \in Networks
  /\ cacheBottom # Nil
  /\ net[cacheBottom] # NoNet
  /\ RemoveNetFails(cacheTree, net[cacheBottom])
  /\ ~AddNetFails(cacheTree, netRange)

RemovalFailureStep(w) ==
  (pc[w] = "insert" /\ pc'[w] = "idle" /\ RemovalWillFail)
    => /\ stats'.Evictions = stats.Evictions + 1
       /\ net'[cacheBottom] = netRange
       /\ entry'[cacheBottom] = result[w]
       /\ cacheTree'[netRange] = cacheBottom
       /\ cacheTop' = cacheBottom
       /\ result[w] = Getter(ip[w])

\* C22: when the removal of the bottom entry's old network from the tree
\* fails, the insert goes on: Evictions is counted, the entry is rebound to
\* the new value and network, the new network is registered to it, the entry
\* becomes cacheTop and the Lookup returns the Getter's value.
RemovalFailureTolerated == [][\A w \in Workers : RemovalFailureStep(w)]_vars

\* An insert is about to evict a bottom entry whose network is not in the tree.
RemovalFailureToleratedWitness ==
  /\ \E w \in Workers : pc[w] = "insert" /\ writer = <<"lookup", w>>
  /\ RemovalWillFail
  /\ maxSize = 2

\* ---- C23 -----------------------------------------------------------------------
\* New has returned an engine and no Lookup has started yet.
FreshEngine ==
  /\ newResult = "engine"
  /\ \A w \in Workers : pc[w] = "idle" /\ done[w] = 0

\* C23: right after New(getter, n) with n >= 1 the engine has the n entries
\* 0 .. n-1, all empty, linked top to bottom in that order with prev undoing
\* next, cacheTop the first and cacheBottom the last; the tree is empty and
\* the three counters are 0.
InitialState ==
  FreshEngine
    => /\ cacheSize >= 1
       /\ maxSize = cacheSize
       /\ RecencyList = [i \in 1 .. cacheSize |-> i - 1]
       /\ cacheTop = 0
       /\ cacheBottom = cacheSize - 1
       /\ prev[cacheTop] = Nil
       /\ next[cacheBottom] = Nil
       /\ \A i \in 1 .. (cacheSize - 1) : prev[i] = i - 1
       /\ \A s \in Slots : entry[s] = Nil /\ net[s] = NoNet
       /\ \A s \in Slots : s >= cacheSize => (prev[s] = Nil /\ next[s] = Nil)
       /\ Registered(cacheTree) = {}
       /\ stats = [Hits |-> 0, Misses |-> 0, Evictions |-> 0]
       /\ writer = Free
       /\ readers = {}

\* New was called with the largest capacity of the model.
InitialStateWitness ==
  /\ FreshEngine
  /\ cacheSize = MaxCapacity
  /\ Len(RecencyList) = MaxCapacity

\* ---- C24 -----------------------------------------------------------------------
\* Worker w has counted its miss and its call of c.Getter has not returned.
InGetter(w) == pc[w] = "getter"

GetterUnderLock ==
  \A w \in Workers :
    InGetter(w)
      => /\ writer = <<"lookup", w>>
         /\ readers = {}
         /\ \A v \in Workers \ {w} : pc[v] \in {"idle", "fasthit", "lock"}

\* A step taken while some Getter call is in progress and stays in progress.
DuringGetter == \E w \in Workers : InGetter(w) /\ InGetter(w)'

\* C24: c.Getter runs only while its Lookup holds the write lock, so at most
\* one Getter call is in progress; while it is, no reader is inside the read
\* lock, and no other Lookup takes a lock, queries the tree, inserts or
\* returns from the slow path and no promotion takes the lock or runs: the
\* only step another Lookup can take is the return of a fast-path hit whose
\* read was over before.
ResolverSerialization ==
  /\ []GetterUnderLock
  /\ [](Cardinality({ w \in Workers : InGetter(w) }) <= 1)
  /\ [][DuringGetter
          => /\ UNCHANGED << cacheTree, listVars, slotVars, readers, writer,
                             promos, getterCalls >>
             /\ stats'.Misses = stats.Misses
             /\ stats'.Evictions = stats.Evictions
             /\ \A v \in Workers :
                  pc'[v] # pc[v] => (pc[v] = "fasthit" /\ pc'[v] = "idle")]_vars

\* A Getter call is in progress while the other caller waits for the write
\* lock and a promotion is pending.
ResolverSerializationWitness ==
  /\ \E w \in Workers : InGetter(w)
  /\ \E v \in Workers : pc[v] = "lock"
  /\ \E s \in Slots : promos[s] > 0

\* ---- C25 -----------------------------------------------------------------------
\* The entries New created.
EngineSlots == { s \in Slots : s < maxSize }

SomeSlotEmpty == \E s \in EngineSlots : ~IsBound(s)

EmptyAfterBound ==
  \A i, j \in 1 .. Len(RecencyList) :
    (i < j /\ IsBound(RecencyList[j])) => IsBound(RecencyList[i])

EmptyFirstState ==
  newResult = "engine"
    => /\ SomeSlotEmpty => stats.Evictions = 0
       /\ EmptyAfterBound
       /\ (cacheBottom # Nil /\ IsBound(cacheBottom)) => ~SomeSlotEmpty

\* C25: while some entry is still empty, Evictions is 0 and no step takes a
\* network out of the tree; on the list no empty entry comes before a bound
\* one, and cacheBottom is bound only when every entry is bound.
EmptySlotsFirst ==
  /\ []EmptyFirstState
  /\ [][SomeSlotEmpty => Registered(cacheTree) \subseteq Registered(cacheTree')]_vars

\* With two entries, one is bound and has been hit and promoted, the other is
\* still empty and is cacheBottom, after two misses of which one was not
\* cached.
EmptySlotsFirstWitness ==
  /\ maxSize = 2
  /\ Cardinality(BoundSlots) = 1
  /\ Len(RecencyList) = 2
  /\ ~IsBound(cacheBottom)
  /\ stats.Hits >= 1
  /\ stats.Misses >= 2
  /\ \A w \in Workers : pc[w] = "idle"
  /\ \A s \in Slots : promos[s] = 0

\* ---- C26 -----------------------------------------------------------------------
\* The list is one chain of exactly maxSize distinct entries from cacheTop to
\* cacheBottom, with prev undoing next.
FullChain ==
  /\ cacheTop # Nil
  /\ cacheBottom # Nil
  /\ Len(RecencyList) = maxSize
  /\ Cardinality(ListSlots) = maxSize
  /\ RecencyList[1] = cacheTop
  /\ RecencyList[Len(RecencyList)] = cacheBottom
  /\ prev[cacheTop] = Nil
  /\ next[cacheBottom] = Nil
  /\ \A i \in 1 .. (Len(RecencyList) - 1) :
       prev[RecencyList[i + 1]] = RecencyList[i]

\* A promotion goroutine runs cacheEntryPromote and unlocks.
LatePromotionStep(s) == (Promoting(s) /\ ~Promoting(s)') => FullChain'

\* The insert evicts a bottom entry whose network the tree maps to an entry:
\* that entry is the bottom entry itself.
EvictsOwnNetworkStep(w) ==
  ( /\ pc[w] = "insert" /\ pc'[w] = "idle"
    /\ netRange \in Networks
    /\ cacheBottom # Nil
    /\ net[cacheBottom] # NoNet
    /\ cacheTree[net[cacheBottom]] # Nil )
  => cacheTree[net[cacheBottom]] = cacheBottom

\* C26: a promotion that starts from a full chain, however late it runs,
\* leaves the list one chain of exactly maxSize distinct entries with cacheTop
\* and cacheBottom its two ends; and an insert that evicts never removes from
\* the tree a network that the tree maps to another entry than the one it
\* evicts (which a late promotion could have put back on the list although
\* the tree does not know it).
LatePromotionHarmless ==
  /\ [][\A s \in Slots : FullChain => LatePromotionStep(s)]_vars
  /\ [][\A w \in Workers : EvictsOwnNetworkStep(w)]_vars
====
